---- MODULE Spec2Model ----
(***************************************************************************)
(* A model of the shader metadata index and search core (src/search.py,    *)
(* class ShaderSearcher): the requires inference and the tag pass of the   *)
(* metadata mutator, the tag-mapping loader, the requires-file loader, the *)
(* index builder, the cache blob they share, the text and capability       *)
(* filters of search, and the command line (main).                         *)
(*                                                                         *)
(* Python strings are sequences of one-character strings, so that lower(), *)
(* `in`, startswith() and strip() are computed and not assumed.  A key     *)
(* that a dict may lack is an option: the empty set, or a singleton.       *)
(***************************************************************************)
EXTENDS Naturals, Sequences, FiniteSets, TLC

VARIABLES
    renderpass,          \* data['renderpass'] of the document the inferencer is run on
    required_resources,  \* the set the inferencer built for it (an option)
    corpus,              \* json_dir: file name (without .json) -> document
    tagFiles,            \* shader_dir -> tag name -> search_results/<tag> file
    requiresFiles,       \* shader_dir -> capability -> requires_<capability>.txt
    cacheFile,           \* tmp/shader_cache.dat
    self,                \* the ShaderSearcher instance: tag_cache, shader_index,
                         \* requires_cache
    op,                  \* the last call and its arguments
    ret,                 \* what the call returned, or that it raised
    scanned,             \* whether the call scanned the corpus (glob + json.load)
    race                 \* two invocations that share the blob, step by step

vars == <<renderpass, required_resources, corpus, tagFiles, requiresFiles, cacheFile, self,
          op, ret, scanned, race>>

----------------------------------------------------------------------------
(* Options: dict.get(key, default) and `key in dict`.                      *)

None == {}

Some(x) == {x}

get(o, default) == IF o = {} THEN default ELSE CHOOSE x \in o : TRUE

----------------------------------------------------------------------------
(* Strings.                                                                *)

UpperChars == <<"A","B","C","D","E","F","G","H","I","J","K","L","M",
                "N","O","P","Q","R","S","T","U","V","W","X","Y","Z">>

LowerChars == <<"a","b","c","d","e","f","g","h","i","j","k","l","m",
                "n","o","p","q","r","s","t","u","v","w","x","y","z">>

LowerChar(c) ==
    IF \E i \in DOMAIN UpperChars : UpperChars[i] = c
    THEN LowerChars[CHOOSE i \in DOMAIN UpperChars : UpperChars[i] = c]
    ELSE c

\* str.lower()
lower(s) == [i \in 1..Len(s) |-> LowerChar(s[i])]

\* sub in s
Contains(sub, s) ==
    \E i \in 0..Len(s) :
        /\ i + Len(sub) <= Len(s)
        /\ SubSeq(s, i + 1, i + Len(sub)) = sub

\* s.startswith(p)
startswith(s, p) == Len(p) <= Len(s) /\ SubSeq(s, 1, Len(p)) = p

\* x in list
InList(x, l) == \E i \in 1..Len(l) : l[i] = x

Range(l) == {l[i] : i \in 1..Len(l)}

\* The sequences over S of at most n elements.
SeqUpTo(S, n) == UNION {[1..k -> S] : k \in 0..n}

\* The orders a Python set can be iterated in.
Orders(S) == {q \in [1..Cardinality(S) -> S] : Range(q) = S}

s_image    == <<"i","m","a","g","e">>
s_buffer   == <<"b","u","f","f","e","r">>
s_sound    == <<"s","o","u","n","d">>
s_common   == <<"c","o","m","m","o","n">>
s_cubemap  == <<"c","u","b","e","m","a","p">>
s_imagebuf == <<"i","m","a","g","e","b","u","f">>
s_soundbuf == <<"s","o","u","n","d","b","u","f">>
s_library  == <<"l","i","b","r","a","r","y">>
s_texture  == <<"t","e","x","t","u","r","e">>
s_buf      == <<"b","u","f">>
s_media    == <<"/","m","e","d","i","a","/">>
s_empty    == <<>>

----------------------------------------------------------------------------
(* The resource-requirement inferencer (add_requires_info_to_jsons, the    *)
(* body of the renderpass loop).                                           *)

\* A mutant of TypeResource: the 'buf' suffix is appended to the type as written.
TypeResourceKeepCase(t) ==
    LET lt == lower(get(t, s_empty)) IN
    IF lt = s_image \/ lt = s_buffer THEN {s_imagebuf}
    ELSE IF lt = s_sound THEN {s_soundbuf}
    ELSE IF lt = s_common THEN {s_library}
    ELSE IF lt = s_cubemap THEN {s_cubemap}
    ELSE IF lt # s_empty THEN {get(t, s_empty) \o s_buf}
    ELSE {}

\* The if/elif chain over input_type (and again over pass_type); t is the
\* option of the 'type' key.
TypeResource(t) ==
    LET input_type == lower(get(t, s_empty)) IN
    IF input_type = s_image \/ input_type = s_buffer THEN {s_imagebuf}
    ELSE IF input_type = s_sound THEN {s_soundbuf}
    ELSE IF input_type = s_common THEN {s_library}
    ELSE IF input_type = s_cubemap THEN {s_cubemap}
    ELSE IF input_type # s_empty THEN {input_type \o s_buf}
    ELSE {}

\* A mutant of FilepathResource: '/media/' is matched ignoring case too.
FilepathResourceAnyCase(fp) ==
    LET filepath == get(fp, s_empty) IN
    IF Contains(s_media, lower(filepath)) \/ Contains(s_cubemap, lower(filepath))
    THEN {s_texture} ELSE {}

\* The filepath test of an input; fp is the option of the 'filepath' key.
FilepathResource(fp) ==
    LET filepath == get(fp, s_empty) IN
    IF Contains(s_media, filepath) \/ Contains(s_cubemap, lower(filepath))
    THEN {s_texture} ELSE {}

\* One input descriptor of a pass.
InputResources(inp) == TypeResource(inp.type) \cup FilepathResource(inp.filepath)

\* One pass: its inputs (pass_info.get('inputs', [])), then its own type.
PassResources(pass_info) ==
    LET inputs == get(pass_info.inputs, <<>>) IN
    UNION {InputResources(inputs[i]) : i \in 1..Len(inputs)}
        \cup TypeResource(pass_info.type)

\* required_resources after the loop over data['renderpass'].
InferRequires(rp) == UNION {PassResources(rp[i]) : i \in 1..Len(rp)}

----------------------------------------------------------------------------
(* The corpus (json_dir).  A document is what open() + json.load() make of *)
(* a file: "absent" (no such file), "unreadable" (open raises an OSError   *)
(* that is not FileNotFoundError), "malformed" (JSONDecodeError),          *)
(* "notdict" (valid JSON, not an object), "noinfo" (an object without      *)
(* 'info'), "badinfo" (an object whose 'info' is not an object) and "ok".  *)
(* The keys of 'info' and the 'renderpass' key are options.                *)

s_json == <<".","j","s","o","n">>

NoInfo == [id |-> None, name |-> None, username |-> None, description |-> None,
           tags |-> None, requires |-> None]

BadDoc(kind) == [kind |-> kind, info |-> NoInfo, renderpass |-> None]

OkDoc(info, rp) == [kind |-> "ok", info |-> info, renderpass |-> rp]

\* str.replace('.json', '')
RECURSIVE RemoveJson(_)
RemoveJson(s) ==
    IF Len(s) < Len(s_json) THEN s
    ELSE IF SubSeq(s, 1, Len(s_json)) = s_json
         THEN RemoveJson(SubSeq(s, Len(s_json) + 1, Len(s)))
         ELSE <<Head(s)>> \o RemoveJson(Tail(s))

\* glob(json_dir/*.json), os.listdir(json_dir): the files that exist.
JsonFiles(c) == {f \in DOMAIN c : c[f].kind # "absent"}

----------------------------------------------------------------------------
(* The tag-association files: shader_dir -> tag name -> file, a file being *)
(* "absent", "unreadable" or "file" with its lines.                        *)

Whitespace == {" ", "\n", "\t"}

\* str.strip()
RECURSIVE strip(_)
strip(s) ==
    IF s = <<>> THEN s
    ELSE IF Head(s) \in Whitespace THEN strip(Tail(s))
    ELSE IF s[Len(s)] \in Whitespace THEN strip(SubSeq(s, 1, Len(s) - 1))
    ELSE s

NoFile == [kind |-> "absent", lines |-> <<>>]

LockedFile == [kind |-> "unreadable", lines |-> <<>>]

TextFile(lines) == [kind |-> "file", lines |-> lines]

\* A mutant of TagFileIds: blank lines are kept as ids and lines are not stripped.
TagFileIdsRaw(file) == Range(file.lines)

\* The ids of one tag file: the stripped lines that are not blank.
TagFileIds(file) == {strip(file.lines[i]) : i \in 1..Len(file.lines)} \ {s_empty}

\* The shader_dirs, in the order of the list.
ShaderDirs == <<"shaders_071121", "shaders_270321">>

\* tag_mappings after the loop over shader_dirs: a readable file of a later
\* directory replaces the set of an earlier one of the same name.
ReadTagFiles(tf) ==
    LET names == {t \in DOMAIN tf[ShaderDirs[1]] :
                     \E i \in DOMAIN ShaderDirs : tf[ShaderDirs[i]][t].kind = "file"}
        last(t) == CHOOSE i \in DOMAIN ShaderDirs :
                     /\ tf[ShaderDirs[i]][t].kind = "file"
                     /\ \A j \in DOMAIN ShaderDirs :
                          tf[ShaderDirs[j]][t].kind = "file" => j <= i
    IN [t \in names |-> TagFileIds(tf[ShaderDirs[last(t)]][t])]

----------------------------------------------------------------------------
(* The cache blob (tmp/shader_cache.dat): "absent", "garbage" (pickle.load *)
(* raises), "list" (unpickles to a list: `key in` it is False), "scalar"   *)
(* (unpickles to a number or None: `key in` it raises TypeError) or "dict" *)
(* with its two optional slots, or "unreadable" (open() for reading raises, *)
(* whatever the file holds); writable says whether open() for writing      *)
(* succeeds.                                                               *)

Blob(kind, tag_cache, shader_index, writable) ==
    [kind |-> kind, tag_cache |-> tag_cache, shader_index |-> shader_index,
     writable |-> writable]

NoBlob == Blob("absent", None, None, TRUE)

\* open(cache_file, 'rb') and pickle.load both succeed.
Loadable(cf) == cf.kind \in {"list", "scalar", "dict"}

\* pickle.dump(cache_data, open(cache_file, 'wb')) of a dict with these slots;
\* a file that cannot be read stays one.
Dumped(cf, tag_cache, shader_index) ==
    IF cf.kind = "unreadable" THEN cf
    ELSE [cf EXCEPT !.kind = "dict", !.tag_cache = tag_cache, !.shader_index = shader_index]

----------------------------------------------------------------------------
(* build_tag_mappings.                                                     *)

\* Lines 30-36: the blob loads and `'tag_cache' in cached_data` is true.
TagCacheHit(cf) == Loadable(cf) /\ cf.kind = "dict" /\ cf.tag_cache # None

\* Lines 60-69 run to the end: the existing blob, if any, loads as a dict
\* and the file opens for writing.
TagCacheSaved(cf) ==
    /\ cf.kind = "absent" \/ (Loadable(cf) /\ cf.kind = "dict")
    /\ cf.writable

\* A mutant of TagSlots: the dict that is dumped starts empty.
TagSlotsFresh(cf, tag_mappings) == Dumped(cf, Some(tag_mappings), None)

\* Lines 62-69: cache_data is the existing dict with 'tag_cache' set.
TagSlots(cf, tag_mappings) == Dumped(cf, Some(tag_mappings), cf.shader_index)

\* The call: the mapping returned (and kept in self.tag_cache) and the blob after.
build_tag_mappings(cf, tf) ==
    IF TagCacheHit(cf)
    THEN [value |-> get(cf.tag_cache, <<>>), cacheFile |-> cf]
    ELSE LET tag_mappings == ReadTagFiles(tf) IN
         [value |-> tag_mappings,
          cacheFile |-> IF TagCacheSaved(cf) THEN TagSlots(cf, tag_mappings) ELSE cf]

----------------------------------------------------------------------------
(* load_all_json_metadata.                                                 *)

\* A mutant of IndexCacheHit: the cached index is never used.
IndexCacheNeverHit(cf, force_rebuild) == FALSE

\* Lines 222-227: the blob is read, loads, and `'shader_index' in cache_data`.
IndexCacheHit(cf, force_rebuild) ==
    ~force_rebuild /\ Loadable(cf) /\ cf.kind = "dict" /\ cf.shader_index # None

\* A mutant of CacheData: every rebuild starts from an empty dict.
CacheDataFresh(cf, force_rebuild) == [kind |-> "dict", tag_cache |-> None]

\* cache_data as line 265 finds it: {} (line 221) unless line 225 assigned
\* what pickle.load returned.
CacheData(cf, force_rebuild) ==
    IF ~force_rebuild /\ Loadable(cf)
    THEN [kind |-> cf.kind, tag_cache |-> cf.tag_cache]
    ELSE [kind |-> "dict", tag_cache |-> None]

\* A mutant of ScanRaises: every failure on a document is caught.
ScanNeverRaises(c) == FALSE

\* Lines 240-260: the except clause names JSONDecodeError, UnicodeDecodeError
\* and FileNotFoundError only; open() on an unreadable file and info.get on
\* an 'info' that is no dict raise past it.
ScanRaises(c) == \E f \in JsonFiles(c) : c[f].kind \in {"unreadable", "badinfo"}

\* Line 247: info.get('id', os.path.basename(filepath).replace('.json', ''))
ShaderId(f, d) == get(d.info.id, RemoveJson(f))

\* Lines 249-255.
IndexRecord(f, d) ==
    [filepath |-> f,
     name |-> get(d.info.name, s_empty),
     username |-> get(d.info.username, s_empty),
     description |-> get(d.info.description, s_empty),
     tags |-> get(d.info.tags, <<>>)]

\* A mutant of IndexedFiles: a document without 'info' is indexed too.
IndexedFilesNoShape(c) == {f \in JsonFiles(c) : c[f].kind \in {"ok", "noinfo"}}

\* The files whose document passes line 245.
IndexedFiles(c) == {f \in JsonFiles(c) : c[f].kind = "ok"}

\* The indexes a scan can build: glob's order is the directory's, so of two
\* documents declaring one id either may be the one that stays.
Indexes(c) ==
    LET ids == {ShaderId(f, c[f]) : f \in IndexedFiles(c)}
        pick == {w \in [ids -> IndexedFiles(c)] : \A i \in ids : ShaderId(w[i], c[w[i]]) = i}
    IN {[i \in ids |-> IndexRecord(w[i], c[w[i]])] : w \in pick}

\* Lines 265-270: the blob after the save.
IndexSaved(cf, cache_data, shader_index) ==
    IF cf.writable THEN Dumped(cf, cache_data.tag_cache, Some(shader_index)) ELSE cf

\* The outcomes of the call: raised or the index returned, the blob after,
\* and whether the corpus was scanned.
load_all_json_metadata(cf, c, force_rebuild) ==
    IF IndexCacheHit(cf, force_rebuild)
    THEN {[raised |-> FALSE, value |-> get(cf.shader_index, <<>>),
           cacheFile |-> cf, scanned |-> FALSE]}
    ELSE IF ScanRaises(c) \/ CacheData(cf, force_rebuild).kind # "dict"
    THEN {[raised |-> TRUE, value |-> <<>>, cacheFile |-> cf, scanned |-> TRUE]}
    ELSE {[raised |-> FALSE, value |-> shader_index,
           cacheFile |-> IndexSaved(cf, CacheData(cf, force_rebuild), shader_index),
           scanned |-> TRUE] : shader_index \in Indexes(c)}

----------------------------------------------------------------------------
(* add_requires_info_to_jsons.                                             *)

RECURSIVE SetSum(_, _)
SetSum(S, g) ==
    IF S = {} THEN 0
    ELSE LET x == CHOOSE y \in S : TRUE IN g[x] + SetSum(S \ {x}, g)

\* Line 84: os.path.join(json_dir, f"{shader_id}.json")
JsonPath(shader_id) == shader_id \o s_json

\* Lines 82-99 for one document: the tags appended to it, in the order the
\* loop over tag_mappings.items() meets them.
NewTags(f, d, tag_mappings, order) ==
    IF d.kind = "ok"
    THEN SelectSeq(order, LAMBDA t :
             /\ \E shader_id \in tag_mappings[t] : JsonPath(shader_id) = f
             /\ ~InList(t, get(d.info.tags, <<>>)))
    ELSE <<>>

\* The document after the tag pass: written back only when a tag was appended.
TagPassDoc(f, d, tag_mappings, order) ==
    LET new == NewTags(f, d, tag_mappings, order) IN
    IF new = <<>> THEN d
    ELSE [d EXCEPT !.info.tags = Some(get(d.info.tags, <<>>) \o new)]

\* Line 104: tag_updated_count is incremented at every append.
TagUpdatedCount(c, tag_mappings, order) ==
    SetSum(DOMAIN c, [f \in DOMAIN c |-> Len(NewTags(f, c[f], tag_mappings, order))])

\* A mutant of NewRequires: `if req not in info['requires']` is dropped.
NewRequiresNoCheck(d) ==
    IF d.kind = "ok" /\ d.renderpass # None
    THEN InferRequires(get(d.renderpass, <<>>))
    ELSE {}

\* Lines 120-176 for one document: the inferred resources its requires list lacks.
NewRequires(d) ==
    IF d.kind = "ok" /\ d.renderpass # None
    THEN InferRequires(get(d.renderpass, <<>>)) \ Range(get(d.info.requires, <<>>))
    ELSE {}

\* The document after the requires pass, the new resources appended in the
\* order the set is iterated in; written back only when the list grew.
RequiresPassDoc(d, order) ==
    IF order = <<>> THEN d
    ELSE [d EXCEPT !.info.requires = Some(get(d.info.requires, <<>>) \o order)]

\* Line 182: requires_updated_count.
RequiresUpdatedCount(c) == Cardinality({f \in DOMAIN c : NewRequires(c[f]) # {}})

\* The outcomes of the call: the two counts returned, the corpus and the blob
\* after, and self.tag_cache.
add_requires_info_to_jsons(cf, c, tf) ==
    LET tm == build_tag_mappings(cf, tf)
        tagged(order) == [f \in DOMAIN c |-> TagPassDoc(f, c[f], tm.value, order)]
        orders(c2) == {q \in [DOMAIN c2 -> UNION {Orders(NewRequires(c2[f])) : f \in DOMAIN c2}] :
                          \A f \in DOMAIN c2 : Range(q[f]) = NewRequires(c2[f])}
    IN UNION {
         {[value |-> <<TagUpdatedCount(c, tm.value, order), RequiresUpdatedCount(tagged(order))>>,
           corpus |-> [f \in DOMAIN c |-> RequiresPassDoc(tagged(order)[f], q[f])],
           cacheFile |-> tm.cacheFile,
           tag_cache |-> tm.value] : q \in orders(tagged(order))}
         : order \in Orders(DOMAIN tm.value)}

----------------------------------------------------------------------------
(* The requires-file loader (load_requires_file).  Each shader directory   *)
(* may hold a requires_<req_type>.txt; a file the model does not list is   *)
(* absent.                                                                 *)

s_keyboard == <<"k","e","y","b","o","a","r","d">>
s_mic == <<"m","i","c">>
s_music == <<"m","u","s","i","c">>
s_musicstream == <<"m","u","s","i","c","s","t","r","e","a","m">>
s_video == <<"v","i","d","e","o">>
s_volume == <<"v","o","l","u","m","e">>
s_webcam == <<"w","e","b","c","a","m">>
s_keyboardbuf == <<"k","e","y","b","o","a","r","d","b","u","f">>
s_micbuf == <<"m","i","c","b","u","f">>
s_musicbuf == <<"m","u","s","i","c","b","u","f">>
s_musicstreambuf == <<"m","u","s","i","c","s","t","r","e","a","m","b","u","f">>
s_videobuf == <<"v","i","d","e","o","b","u","f">>
s_volumebuf == <<"v","o","l","u","m","e","b","u","f">>
s_webcambuf == <<"w","e","b","c","a","m","b","u","f">>
s_texturebuf == <<"t","e","x","t","u","r","e","b","u","f">>
s_dashes == <<"-","-","-">>
s_slash == "/"

\* Line 199, os.path.join(shader_dir, f'requires_{req_type}.txt').
RequiresFile(rf, shader_dir, req_type) ==
    IF req_type \in DOMAIN rf[shader_dir] THEN rf[shader_dir][req_type] ELSE NoFile

\* A mutant of RequiresLineId: the whole line is the id.
RequiresLineWhole(line) == line

\* Lines 207-211: line.split('/')[-1], or the line when it has no '/'.
RequiresLineId(line) ==
    LET slashes == {i \in 1..Len(line) : line[i] = s_slash}
    IN IF slashes = {} THEN line
       ELSE SubSeq(line, (CHOOSE i \in slashes : \A j \in slashes : j <= i) + 1, Len(line))

\* Lines 201-212 for one file: a file that is there but cannot be opened
\* gives a warning and no id.
RequiresFileIds(file) ==
    IF file.kind # "file" THEN {}
    ELSE {RequiresLineId(strip(file.lines[i])) :
            i \in {j \in 1..Len(file.lines) :
                     /\ strip(file.lines[j]) # s_empty
                     /\ ~startswith(strip(file.lines[j]), s_dashes)}}

\* Lines 196-214: requires_set over all the shader directories.
ReadRequiresFiles(rf, req_type) ==
    UNION {RequiresFileIds(RequiresFile(rf, ShaderDirs[i], req_type)) : i \in 1..Len(ShaderDirs)}

\* A mutant of RequiresMemoHit: the memo is never used.
RequiresMemoNeverHit(sf, req_type) == FALSE

\* Line 193.
RequiresMemoHit(sf, req_type) == req_type \in DOMAIN sf.requires_cache

\* The call: the set returned, the instance after, and whether the file
\* system was looked at.
load_requires_file(sf, rf, req_type) ==
    IF RequiresMemoHit(sf, req_type)
    THEN [value |-> sf.requires_cache[req_type], self |-> sf, read |-> FALSE]
    ELSE LET requires_set == ReadRequiresFiles(rf, req_type)
         IN [value |-> requires_set,
             self |-> [sf EXCEPT !.requires_cache = (req_type :> requires_set) @@ @],
             read |-> TRUE]

----------------------------------------------------------------------------
(* search: the text filters (lines 282-330), the capability filters      *)
(* (lines 332-455) and the result (lines 457-469).  A text filter is an    *)
(* option; '' is falsy and is skipped like None.  The capability filters   *)
(* are the set of the requires_* flags that are set.                       *)

Supplied(filter) == filter # None /\ filter # Some(s_empty)

\* A mutant of FieldMatches: the field is not lower-cased.
FieldMatchesCase(filter, field) == Contains(lower(get(filter, s_empty)), field)

\* Lines 312, 320, 328: filter.lower() in field.lower()
FieldMatches(filter, field) == Contains(lower(get(filter, s_empty)), lower(field))

\* A mutant of TagsMatch: the tag cache is not consulted.
TagsMatchOwn(shader_id, data, tag_cache, tags) ==
    \E t \in Range(data.tags) : Contains(lower(get(tags, s_empty)), lower(t))

\* Lines 293-305: the record's own tags and the cached tags that list
\* the shader and start with the filter.
TagsMatch(shader_id, data, tag_cache, tags) ==
    LET tag_lower == lower(get(tags, s_empty))
        all_tags == Range(data.tags) \cup
                    {cached_tag \in DOMAIN tag_cache :
                        /\ shader_id \in tag_cache[cached_tag]
                        /\ startswith(lower(cached_tag), tag_lower)}
    IN \E t \in all_tags : Contains(tag_lower, lower(t))

\* matching_shaders after the four text filters.
TextMatching(shader_index, tag_cache, q) ==
    {shader_id \in DOMAIN shader_index :
        /\ Supplied(q.tags) => TagsMatch(shader_id, shader_index[shader_id], tag_cache, q.tags)
        /\ Supplied(q.name) => FieldMatches(q.name, shader_index[shader_id].name)
        /\ Supplied(q.author) => FieldMatches(q.author, shader_index[shader_id].username)
        /\ Supplied(q.description) =>
               FieldMatches(q.description, shader_index[shader_id].description)}

\* Lines 458-467.
ResultRecord(shader_id, data) ==
    [filepath |-> data.filepath, id |-> shader_id, name |-> data.name,
     username |-> data.username, description |-> data.description, tags |-> data.tags]

\* A mutant of IndexAfterTagsFilter: all_tags is the record's own list, so
\* the cached tags are appended to the record.
IndexAfterTagsFilterAliased(shader_index, tag_cache, tags) ==
    IF ~Supplied(tags) THEN shader_index
    ELSE [shader_id \in DOMAIN shader_index |->
            LET added == {cached_tag \in DOMAIN tag_cache :
                            /\ shader_id \in tag_cache[cached_tag]
                            /\ startswith(lower(cached_tag), lower(get(tags, s_empty)))
                            /\ ~InList(cached_tag, shader_index[shader_id].tags)}
            IN [shader_index[shader_id] EXCEPT
                   !.tags = @ \o (CHOOSE order \in Orders(added) : TRUE)]]

\* Lines 296-303: all_tags is a copy (data['tags'][:]); the cached tags
\* are appended to the copy and the records of the index stay as loaded.
IndexAfterTagsFilter(shader_index, tag_cache, tags) == shader_index

\* The requires_* parameters of search, lines 275-279.
Capabilities ==
    {s_buffer, s_cubemap, s_image, s_imagebuf, s_keyboard, s_library, s_mic, s_music,
     s_musicstream, s_sound, s_soundbuf, s_texture, s_video, s_volume, s_webcam, s_common}

\* A mutant of RequiresString: the flag's own name is looked up.
RequiresStringSame(cap) == cap

\* has_req, lines 355-450: the string looked up in req_list for each flag.
RequiresString(cap) ==
    CASE cap = s_buffer      -> s_imagebuf
      [] cap = s_cubemap     -> s_cubemap
      [] cap = s_image       -> s_imagebuf
      [] cap = s_imagebuf    -> s_imagebuf
      [] cap = s_keyboard    -> s_keyboardbuf
      [] cap = s_library     -> s_library
      [] cap = s_mic         -> s_micbuf
      [] cap = s_music       -> s_musicbuf
      [] cap = s_musicstream -> s_musicstreambuf
      [] cap = s_sound       -> s_soundbuf
      [] cap = s_soundbuf    -> s_soundbuf
      [] cap = s_texture     -> s_texturebuf
      [] cap = s_video       -> s_videobuf
      [] cap = s_volume      -> s_volumebuf
      [] cap = s_webcam      -> s_webcambuf
      [] cap = s_common      -> s_library

\* A mutant of ReqList: the document is not looked at.
ReqListNotRead(c, filepath) == <<>>

\* Lines 341-350: req_list, from the document as it is on disk now; [] when
\* it cannot be opened or parsed, is no dict, has no 'info', or when
\* info.get raises.
ReqList(c, filepath) ==
    IF filepath \in DOMAIN c /\ c[filepath].kind = "ok"
    THEN get(c[filepath].info.requires, <<>>)
    ELSE <<>>

\* A mutant of ConditionsMet: one requested capability is enough.
ConditionsMetAny(shader_id, req_list, requires_cache, caps) ==
    \E cap \in caps :
        shader_id \in requires_cache[cap] \/ InList(RequiresString(cap), req_list)

\* Lines 352-453: all(conditions_met), each being in_orig or has_req.
ConditionsMet(shader_id, req_list, requires_cache, caps) ==
    \A cap \in caps :
        shader_id \in requires_cache[cap] \/ InList(RequiresString(cap), req_list)

\* self.requires_cache after the load_requires_file calls of lines 355-450:
\* one per requested capability, made only when some shader passed the
\* text filters.
RequiresCacheAfter(sf, rf, matching_shaders, caps) ==
    IF matching_shaders = {} THEN sf.requires_cache
    ELSE [cap \in DOMAIN sf.requires_cache \cup caps |->
            IF cap \in caps THEN load_requires_file(sf, rf, cap).value
            ELSE sf.requires_cache[cap]]

\* A mutant of CapabilityMatching: a shader whose document cannot be read
\* as JSON is dropped.
CapabilityMatchingReadable(shader_index, c, requires_cache, matching_shaders, caps) ==
    IF caps = {} THEN matching_shaders
    ELSE {shader_id \in matching_shaders :
            /\ c[shader_index[shader_id].filepath].kind \notin {"absent", "unreadable", "malformed"}
            /\ ConditionsMet(shader_id, ReqList(c, shader_index[shader_id].filepath),
                             requires_cache, caps)}

\* Lines 333-455: temp_matching; matching_shaders itself when no flag is set.
CapabilityMatching(shader_index, c, requires_cache, matching_shaders, caps) ==
    IF caps = {} THEN matching_shaders
    ELSE {shader_id \in matching_shaders :
            ConditionsMet(shader_id, ReqList(c, shader_index[shader_id].filepath),
                          requires_cache, caps)}

\* A mutant of TagCacheForSearch: the mapping is loaded on a forced rebuild too.
TagCacheAlwaysLoaded(sf, cf, tf, force_rebuild) == build_tag_mappings(cf, tf)

\* Lines 283-284: the mapping is loaded only `if not force_rebuild`;
\* otherwise self.tag_cache is what the instance already holds.
TagCacheForSearch(sf, cf, tf, force_rebuild) ==
    IF ~force_rebuild THEN build_tag_mappings(cf, tf)
    ELSE [value |-> sf.tag_cache, cacheFile |-> cf]

\* The outcomes of the call: raised or the result records, the instance and
\* the blob after, and whether the corpus was scanned.
search(sf, cf, c, tf, rf, q, force_rebuild) ==
    {IF o.raised
     THEN [raised |-> TRUE, value |-> {}, self |-> sf, cacheFile |-> o.cacheFile,
           scanned |-> o.scanned]
     ELSE LET tm == TagCacheForSearch(sf, o.cacheFile, tf, force_rebuild)
              text_matching == TextMatching(o.value, tm.value, q)
              shader_index == IndexAfterTagsFilter(o.value, tm.value, q.tags)
              requires_cache == RequiresCacheAfter(sf, rf, text_matching, q.requires)
              matching_shaders ==
                  CapabilityMatching(shader_index, c, requires_cache, text_matching, q.requires)
          IN [raised |-> FALSE,
              value |-> {ResultRecord(i, shader_index[i]) : i \in matching_shaders},
              self |-> [tag_cache |-> tm.value, shader_index |-> shader_index,
                        requires_cache |-> requires_cache],
              cacheFile |-> tm.cacheFile,
              scanned |-> o.scanned]
     : o \in load_all_json_metadata(cf, c, force_rebuild)}

----------------------------------------------------------------------------
(* main: one run of the command line.  args holds --add-tags, --reindex    *)
(* and the filters; the run makes its own ShaderSearcher.                  *)

\* A mutant of HasCriteria: the search is made whatever the arguments are.
HasCriteriaAlways(q) == TRUE

\* Lines 523-529: any([...]) over the four texts and the sixteen flags.
HasCriteria(q) ==
    Supplied(q.tags) \/ Supplied(q.name) \/ Supplied(q.author) \/ Supplied(q.description)
        \/ q.requires # {}

\* The outcomes of a run: what it printed (the records found, or the usage
\* text), and the corpus and the blob after.
main(sf, cf, c, tf, rf, args) ==
    IF args.add_tags
    THEN {[raised |-> FALSE, value |-> {}, help |-> FALSE, corpus |-> o.corpus,
           cacheFile |-> o.cacheFile, scanned |-> FALSE]
          : o \in add_requires_info_to_jsons(cf, c, tf)}
    ELSE IF HasCriteria(args.q)
    THEN {[raised |-> o.raised, value |-> o.value, help |-> FALSE, corpus |-> c,
           cacheFile |-> o.cacheFile, scanned |-> o.scanned]
          : o \in search(sf, cf, c, tf, rf, args.q, args.reindex)}
    ELSE {[raised |-> FALSE, value |-> {}, help |-> TRUE, corpus |-> c,
           cacheFile |-> cf, scanned |-> FALSE]}

----------------------------------------------------------------------------
(* The calls as actions.  `exits` says that the process ends with the call *)
(* (main() makes one ShaderSearcher per run), so that the instance is gone *)
(* after it.                                                               *)

\* __init__, lines 24-26.
FreshSelf == [tag_cache |-> <<>>, shader_index |-> <<>>, requires_cache |-> <<>>]

NoQuery == [tags |-> None, name |-> None, author |-> None, description |-> None, requires |-> {}]

Call(name, force_rebuild, q) == [name |-> name, force_rebuild |-> force_rebuild, q |-> q]

Infer ==
    /\ required_resources = None
    /\ required_resources' = Some(InferRequires(renderpass))
    /\ UNCHANGED <<race, requiresFiles, renderpass, corpus, tagFiles, cacheFile, self, op, ret, scanned>>

NewInstance ==
    /\ self # FreshSelf
    /\ self' = FreshSelf
    /\ op' = Call("__init__", FALSE, NoQuery)
    /\ ret' = [raised |-> FALSE, value |-> <<>>]
    /\ scanned' = FALSE
    /\ UNCHANGED <<race, requiresFiles, renderpass, required_resources, corpus, tagFiles, cacheFile>>

LoadAll(force_rebuild) ==
    \E o \in load_all_json_metadata(cacheFile, corpus, force_rebuild) :
        /\ op' = Call("load_all_json_metadata", force_rebuild, NoQuery)
        /\ ret' = [raised |-> o.raised, value |-> o.value]
        /\ cacheFile' = o.cacheFile
        /\ scanned' = o.scanned
        /\ UNCHANGED <<race, requiresFiles, renderpass, required_resources, corpus, tagFiles, self>>

BuildTags(exits) ==
    LET o == build_tag_mappings(cacheFile, tagFiles) IN
        /\ op' = Call("build_tag_mappings", FALSE, NoQuery)
        /\ ret' = [raised |-> FALSE, value |-> o.value]
        /\ cacheFile' = o.cacheFile
        /\ self' = IF exits THEN FreshSelf ELSE [self EXCEPT !.tag_cache = o.value]
        /\ scanned' = FALSE
        /\ UNCHANGED <<race, requiresFiles, renderpass, required_resources, corpus, tagFiles>>

Mutate(exits) ==
    \E o \in add_requires_info_to_jsons(cacheFile, corpus, tagFiles) :
        /\ op' = Call("add_requires_info_to_jsons", FALSE, NoQuery)
        /\ ret' = [raised |-> FALSE, value |-> o.value]
        /\ corpus' = o.corpus
        /\ cacheFile' = o.cacheFile
        /\ self' = IF exits THEN FreshSelf ELSE [self EXCEPT !.tag_cache = o.tag_cache]
        /\ scanned' = FALSE
        /\ UNCHANGED <<race, requiresFiles, renderpass, required_resources, tagFiles>>

Search(q, force_rebuild, exits) ==
    \E o \in search(self, cacheFile, corpus, tagFiles, requiresFiles, q, force_rebuild) :
        /\ op' = Call("search", force_rebuild, q)
        /\ ret' = [raised |-> o.raised, value |-> o.value]
        /\ cacheFile' = o.cacheFile
        /\ self' = IF exits THEN FreshSelf ELSE o.self
        /\ scanned' = o.scanned
        /\ UNCHANGED <<race, requiresFiles, renderpass, required_resources, corpus, tagFiles>>

\* A run of the command line: line 514 makes the instance, and it is gone
\* when the run ends.
Main(args) ==
    \E o \in main(FreshSelf, cacheFile, corpus, tagFiles, requiresFiles, args) :
        /\ op' = Call("main", args.reindex, args.q) @@ [add_tags |-> args.add_tags]
        /\ ret' = [raised |-> o.raised, value |-> o.value, help |-> o.help]
        /\ corpus' = o.corpus
        /\ cacheFile' = o.cacheFile
        /\ self' = FreshSelf
        /\ scanned' = o.scanned
        /\ UNCHANGED <<race, requiresFiles, renderpass, required_resources, tagFiles>>

LoadRequires(req_type) ==
    LET o == load_requires_file(self, requiresFiles, req_type) IN
        /\ op' = [Call("load_requires_file", FALSE, NoQuery) EXCEPT !.q.requires = {req_type}]
        /\ ret' = [raised |-> FALSE, value |-> o.value, read |-> o.read]
        /\ self' = o.self
        /\ scanned' = FALSE
        /\ UNCHANGED <<race, requiresFiles, renderpass, required_resources, corpus, tagFiles, cacheFile>>

(* What is outside the program: the corpus, the association files and the  *)
(* blob change under it.                                                   *)

EnvCall(name) == Call(name, FALSE, NoQuery)

EnvCorpus(c) ==
    /\ c # corpus
    /\ corpus' = c
    /\ op' = EnvCall("env_corpus")
    /\ ret' = [raised |-> FALSE, value |-> <<>>]
    /\ scanned' = FALSE
    /\ UNCHANGED <<race, requiresFiles, renderpass, required_resources, tagFiles, cacheFile, self>>

EnvTagFiles(tf) ==
    /\ tf # tagFiles
    /\ tagFiles' = tf
    /\ op' = EnvCall("env_tag_files")
    /\ ret' = [raised |-> FALSE, value |-> <<>>]
    /\ scanned' = FALSE
    /\ UNCHANGED <<race, requiresFiles, renderpass, required_resources, corpus, cacheFile, self>>

EnvRequiresFiles(rf) ==
    /\ rf # requiresFiles
    /\ requiresFiles' = rf
    /\ op' = EnvCall("env_requires_files")
    /\ ret' = [raised |-> FALSE, value |-> <<>>]
    /\ scanned' = FALSE
    /\ UNCHANGED <<race, renderpass, required_resources, corpus, tagFiles, cacheFile, self>>

EnvCache(cf) ==
    /\ cf # cacheFile
    /\ cacheFile' = cf
    /\ op' = EnvCall("env_cache")
    /\ ret' = [raised |-> FALSE, value |-> <<>>]
    /\ scanned' = FALSE
    /\ UNCHANGED <<race, requiresFiles, renderpass, required_resources, corpus, tagFiles, self>>

----------------------------------------------------------------------------
(* The universes the specifications draw from.                             *)

id_Xs == <<"X","s">>
id_Yb == <<"Y","b">>
id_Zz == <<"Z","z">>

Files == {JsonPath(id_Xs), JsonPath(id_Yb)}

t_procedural == <<"p","r","o","c","e","d","u","r","a","l">>
t_Glow       == <<"G","l","o","w">>

TagNames == {t_procedural, t_Glow}

EmptyCorpus == [f \in Files |-> BadDoc("absent")]

NoTagFiles == [i \in Range(ShaderDirs) |-> [t \in TagNames |-> NoFile]]

NoRequiresFiles == [i \in Range(ShaderDirs) |-> <<>>]

Idle == [raised |-> FALSE, value |-> <<>>]

\* No invocation is under way.
NoRace == [mode |-> "none"]

\* The state of everything but the inferencer, before any call.
InitSystem(c, tf, cf) ==
    /\ corpus = c
    /\ tagFiles = tf
    /\ requiresFiles = NoRequiresFiles
    /\ cacheFile = cf
    /\ self = FreshSelf
    /\ op = EnvCall("start")
    /\ ret = Idle
    /\ scanned = FALSE
    /\ race = NoRace

----------------------------------------------------------------------------
(* SpecInfer: the inferencer over every render-pass list of at most        *)
(* MaxPasses passes of at most MaxInputs inputs.                           *)

MaxPasses == 1

MaxInputs == 2

s_Image    == <<"I","m","a","g","e">>
s_Video    == <<"V","i","d","e","o">>
s_CubeMap  == <<"C","u","b","e","M","a","p">>

PassTypes ==
    {None, Some(s_empty), Some(s_sound), Some(s_buffer), Some(s_CubeMap), Some(s_Video)}

InputChoices ==
    {[type |-> Some(s_Image),  filepath |-> Some(<<"/","M","E","D","I","A","/","a">>)],
     [type |-> Some(s_common), filepath |-> Some(<<"x","/">> \o s_CubeMap)],
     [type |-> None,           filepath |-> Some(s_media \o <<"a">>)]}

PassChoices ==
    [type : PassTypes,
     inputs : {None} \cup {Some(inputs) : inputs \in SeqUpTo(InputChoices, MaxInputs)}]

InitInfer ==
    /\ renderpass \in SeqUpTo(PassChoices, MaxPasses)
    /\ required_resources = None
    /\ InitSystem(EmptyCorpus, NoTagFiles, NoBlob)

NextInfer == Infer

SpecInfer == InitInfer /\ [][NextInfer]_vars

\* Every type string of the list, pass-level and input-level.
TypesOf(rp) ==
    UNION {rp[i].type \cup
           UNION {get(rp[i].inputs, <<>>)[j].type : j \in 1..Len(get(rp[i].inputs, <<>>))}
           : i \in 1..Len(rp)}

\* Every filepath of an input of the list.
FilepathsOf(rp) ==
    UNION {UNION {get(rp[i].inputs, <<>>)[j].filepath : j \in 1..Len(get(rp[i].inputs, <<>>))}
           : i \in 1..Len(rp)}

\* The mapping table; suffixed is the string 'buf' is appended to.
Table(T, suffixed) ==
    CASE lower(T) \in {s_image, s_buffer} -> s_imagebuf
      [] lower(T) = s_sound -> s_soundbuf
      [] lower(T) = s_common -> s_library
      [] lower(T) = s_cubemap -> s_cubemap
      [] OTHER -> suffixed \o s_buf

TextureRule(rp) ==
    IF \E fp \in FilepathsOf(rp) : Contains(s_media, fp) \/ Contains(s_cubemap, lower(fp))
    THEN {s_texture} ELSE {}

\* C1 as stated: the inferred set is the union of the table over every
\* non-empty type, any other type T giving T + 'buf' (T as written), plus
\* 'texture' by the filepath rule.
C1_AsStated ==
    required_resources # None =>
        get(required_resources, {}) =
            {Table(T, T) : T \in TypesOf(renderpass) \ {s_empty}} \cup TextureRule(renderpass)

\* C1 amended: the same union, any other type T giving lower(T) + 'buf'.
C1_InferredSet ==
    required_resources # None =>
        get(required_resources, {}) =
            {Table(T, lower(T)) : T \in TypesOf(renderpass) \ {s_empty}}
                \cup TextureRule(renderpass)

\* A pass whose own type and whose two inputs' types and filepaths all
\* contribute: 'Video', 'Image' with '/MEDIA/a', 'common' with 'x/CubeMap'.
C1_Witness ==
    /\ required_resources = Some({s_videobuf, s_imagebuf, s_library, s_texture})
    /\ Len(renderpass) = 1
    /\ renderpass[1].type = Some(s_Video)
    /\ Len(get(renderpass[1].inputs, <<>>)) = 2

----------------------------------------------------------------------------
(* SpecMutate: main() with --add-tags, run after run, over corpora of two  *)
(* files, while the association files change between runs.                *)

Info(id, name, username, description, tags, requires) ==
    [id |-> id, name |-> name, username |-> username, description |-> description,
     tags |-> tags, requires |-> requires]

\* An image pass with one sound input: infers imagebuf and soundbuf.
rp_ImageSound ==
    <<[type |-> Some(s_Image), inputs |-> Some(<<[type |-> Some(s_sound), filepath |-> None]>>)]>>

DocsMutate ==
    {BadDoc("absent"), BadDoc("malformed"),
     [kind |-> "badinfo", info |-> NoInfo, renderpass |-> Some(rp_ImageSound)]}
    \cup {OkDoc(Info(None, None, None, None, tags, requires), rp) :
            tags \in {None, Some(<<t_procedural>>)},
            requires \in {None, Some(<<s_imagebuf>>)},
            rp \in {None, Some(rp_ImageSound)}}

nl == <<"\n">>

\* One tag listing both shaders, with a blank line and padded lines.
tf_OneTag ==
    [NoTagFiles EXCEPT ![ShaderDirs[1]][t_procedural] =
        TextFile(<<id_Xs \o nl, nl, <<" ">> \o id_Yb \o <<" ">> \o nl>>)]

\* Two tags listing the same shader.
tf_TwoTags ==
    [NoTagFiles EXCEPT ![ShaderDirs[1]][t_procedural] = TextFile(<<id_Xs \o nl>>),
                       ![ShaderDirs[1]][t_Glow] = TextFile(<<id_Xs \o nl>>)]

\* A tag in both directories, and an unreadable file.
tf_TwoDirs ==
    [NoTagFiles EXCEPT ![ShaderDirs[1]][t_procedural] = TextFile(<<id_Xs \o nl>>),
                       ![ShaderDirs[2]][t_procedural] = TextFile(<<id_Yb \o nl, id_Zz>>),
                       ![ShaderDirs[2]][t_Glow] = LockedFile]

TagFileChoices == {NoTagFiles, tf_OneTag, tf_TwoTags, tf_TwoDirs}

InitMutate ==
    /\ renderpass = <<>>
    /\ required_resources = None
    /\ \E c \in [Files -> DocsMutate], tf \in TagFileChoices,
          cf \in {NoBlob, Blob("garbage", None, None, TRUE)} :
            InitSystem(c, tf, cf)

NextMutate ==
    \/ Mutate(TRUE)
    \/ \E tf \in TagFileChoices : EnvTagFiles(tf)

SpecMutate == InitMutate /\ [][NextMutate]_vars

IsMutate(call) == call.name = "add_requires_info_to_jsons"

RequiresOf(c) == [f \in DOMAIN c |-> c[f].info.requires]

\* C2: a mutator run that directly follows a mutator run returns a
\* requires-updated count of 0 and changes no document's requires list.
C2_RequiresIdempotent ==
    [][IsMutate(op) /\ IsMutate(op') =>
          ret'.value[2] = 0 /\ RequiresOf(corpus') = RequiresOf(corpus)]_vars

\* A run that returned 0 over a document whose requires list an earlier run
\* completed (no document starts with soundbuf).
C2_Witness ==
    /\ IsMutate(op)
    /\ ret.value[2] = 0
    /\ \E f \in Files :
          /\ corpus[f].renderpass = Some(rp_ImageSound)
          /\ Range(get(corpus[f].info.requires, <<>>)) = {s_imagebuf, s_soundbuf}

TagsOf(c) == [f \in DOMAIN c |-> get(c[f].info.tags, <<>>)]

\* C3 as stated: the tags-updated count a mutator run returns is the number
\* of documents whose tags list the run changed, and the run only appends
\* tags the list did not hold.
C3_TagCountIsDocuments ==
    [][IsMutate(op') =>
          /\ ret'.value[1] = Cardinality({f \in Files : TagsOf(corpus')[f] # TagsOf(corpus)[f]})
          /\ \A f \in Files :
                LET old == TagsOf(corpus)[f]
                    new == TagsOf(corpus')[f]
                IN /\ Len(new) >= Len(old)
                   /\ SubSeq(new, 1, Len(old)) = old
                   /\ \A i \in Len(old) + 1 .. Len(new) :
                        \A j \in 1 .. i - 1 : new[j] # new[i]]_vars

----------------------------------------------------------------------------
(* SpecScan: the index builder over every corpus of two files of every     *)
(* kind of document, with and without a cached index.                      *)

s_GlowSphere == <<"G","l","o","w"," ","S","p","h","e","r","e">>
s_FlatColor  == <<"F","l","a","t"," ","C","o","l","o","r">>
s_jon        == <<"j","o","n">>
s_Jonas      == <<"J","o","n","a","s">>
s_ana        == <<"a","n","a">>

doc_Glow == OkDoc(Info(None, Some(s_GlowSphere), Some(s_Jonas), None, None, None), None)

doc_Flat == OkDoc(Info(Some(id_Zz), Some(s_FlatColor), Some(s_ana), None, Some(<<>>), None), None)

DocKinds == {"absent", "unreadable", "malformed", "notdict", "noinfo", "badinfo"}

DocsScan == {BadDoc(kind) : kind \in DocKinds} \cup {doc_Glow, doc_Flat}

InitScan ==
    /\ renderpass = <<>>
    /\ required_resources = None
    /\ \E c \in [Files -> DocsScan],
          cf \in {NoBlob, Blob("dict", Some(<<>>), None, TRUE), Blob("dict", None, Some(<<>>), TRUE)} :
            InitSystem(c, NoTagFiles, cf)

NextScan == \E force_rebuild \in BOOLEAN : LoadAll(force_rebuild)

SpecScan == InitScan /\ [][NextScan]_vars

IsLoadAll(call) == call.name = "load_all_json_metadata"

\* The documents that are a keyed structure with an 'info' section that is
\* one too.
WellFormed(c) == {f \in DOMAIN c : c[f].kind = "ok"}

\* C5 as stated: a build that scans the corpus does not raise, whatever the
\* documents are, and the index it returns holds the ids of the well-formed
\* documents and no other.
C5_ScanNeverAborts ==
    IsLoadAll(op) /\ scanned =>
        /\ ~ret.raised
        /\ DOMAIN ret.value = {get(corpus[f].info.id, RemoveJson(f)) : f \in WellFormed(corpus)}

----------------------------------------------------------------------------
(* SpecCache: runs of the builder, the tag-mapping loader, the mutator and *)
(* search, one process each as main() makes them, while the corpus, the    *)
(* association files and the blob change between runs.                     *)

Corpus(xs, yb) == [f \in Files |-> IF f = JsonPath(id_Xs) THEN xs ELSE yb]

CorpusChoices ==
    {EmptyCorpus,
     Corpus(doc_Glow, BadDoc("absent")),
     Corpus(doc_Glow, doc_Flat),
     Corpus(BadDoc("malformed"), doc_Flat),
     Corpus(doc_Flat, BadDoc("badinfo"))}

s_glow == <<"g","l","o","w">>
s_proc == <<"p","r","o","c">>

QueriesCache == {[NoQuery EXCEPT !.name = Some(s_glow)], [NoQuery EXCEPT !.tags = Some(s_proc)]}

\* What the blob can be without the program having written it.
ForeignBlobs ==
    {Blob(kind, None, None, writable) :
        kind \in {"absent", "unreadable", "garbage", "list", "scalar"},
        writable \in BOOLEAN}

EnvChmod ==
    /\ cacheFile' = [cacheFile EXCEPT !.writable = ~@]
    /\ op' = EnvCall("env_cache")
    /\ ret' = Idle
    /\ scanned' = FALSE
    /\ UNCHANGED <<race, requiresFiles, renderpass, required_resources, corpus, tagFiles, self>>

InitCache ==
    /\ renderpass = <<>>
    /\ required_resources = None
    /\ \E c \in CorpusChoices, cf \in ForeignBlobs : InitSystem(c, tf_OneTag, cf)

NextCache ==
    \/ \E force_rebuild \in BOOLEAN : LoadAll(force_rebuild)
    \/ BuildTags(TRUE)
    \/ Mutate(TRUE)
    \/ \E q \in QueriesCache, force_rebuild \in BOOLEAN : Search(q, force_rebuild, TRUE)
    \/ \E c \in CorpusChoices : EnvCorpus(c)
    \/ \E tf \in {tf_OneTag, tf_TwoDirs} : EnvTagFiles(tf)
    \/ \E cf \in ForeignBlobs : EnvCache(cf)
    \/ EnvChmod

SpecCache == InitCache /\ [][NextCache]_vars


IsSearch(call) == call.name = "search"

IsBuildTags(call) == call.name = "build_tag_mappings"

\* A call of the program, as opposed to a change made under it.
IsCall(call) ==
    IsLoadAll(call) \/ IsSearch(call) \/ IsBuildTags(call) \/ IsMutate(call)

\* The blob holds a valid slot of that name.
HasIndexSlot(cf) == cf.kind = "dict" /\ cf.shader_index # None

HasTagSlot(cf) == cf.kind = "dict" /\ cf.tag_cache # None

\* C4: a build that scans and persists leaves the index it returns in the
\* shader_index slot; every call without a forced rebuild and every change
\* of the corpus or of the association files leaves that slot as it is; and
\* a build without forceRebuild that finds the slot returns its content
\* without scanning the corpus.
C4_CacheRoundTrip ==
    /\ [][IsLoadAll(op') /\ scanned' /\ ~ret'.raised /\ cacheFile' # cacheFile =>
             cacheFile'.shader_index = Some(ret'.value)]_vars
    /\ [][HasIndexSlot(cacheFile) /\ op'.name # "env_cache" /\ ~op'.force_rebuild =>
             HasIndexSlot(cacheFile') /\ cacheFile'.shader_index = cacheFile.shader_index]_vars
    /\ [][IsLoadAll(op') /\ ~op'.force_rebuild /\ HasIndexSlot(cacheFile) =>
             /\ ~ret'.raised
             /\ ret'.value = get(cacheFile.shader_index, <<>>)
             /\ ~scanned']_vars

\* A build without forceRebuild that returned the cached index of both
\* documents, without a scan, over a corpus that has since lost them.
C4_Witness ==
    /\ IsLoadAll(op) /\ ~op.force_rebuild /\ ~ret.raised /\ ~scanned
    /\ DOMAIN ret.value = {id_Xs, id_Zz}
    /\ cacheFile.shader_index = Some(ret.value)
    /\ corpus = EmptyCorpus

\* C6 as stated: whatever the blob is, a build without forceRebuild over a
\* corpus of documents the scan accepts or skips returns an index of that
\* corpus without raising, and the tag-mapping loader returns a mapping
\* without raising.
C6_CacheMissNeverFatal ==
    /\ IsLoadAll(op) /\ ~op.force_rebuild
          /\ (\A f \in Files : corpus[f].kind \notin {"unreadable", "badinfo"})
          => ~ret.raised
    /\ IsBuildTags(op) => ~ret.raised

\* C7 as stated: a call that persists the shader_index slot leaves a valid
\* tag_cache slot as it is, and a call that persists the tag_cache slot
\* leaves a valid shader_index slot as it is.
C7_SlotsIndependent ==
    /\ [][IsCall(op') /\ scanned' /\ ~ret'.raised /\ HasTagSlot(cacheFile) /\ cacheFile.writable =>
             HasTagSlot(cacheFile') /\ cacheFile'.tag_cache = cacheFile.tag_cache]_vars
    /\ [][IsCall(op') /\ HasIndexSlot(cacheFile) /\ cacheFile'.tag_cache # cacheFile.tag_cache =>
             HasIndexSlot(cacheFile') /\ cacheFile'.shader_index = cacheFile.shader_index]_vars

\* C8: a call without a forced rebuild, and a change of the corpus or of the
\* association files, leaves every valid slot of the blob as it is.
C8_SlotsKept ==
    [][op'.name # "env_cache" /\ ~op'.force_rebuild =>
          /\ HasTagSlot(cacheFile) =>
                HasTagSlot(cacheFile') /\ cacheFile'.tag_cache = cacheFile.tag_cache
          /\ HasIndexSlot(cacheFile) =>
                HasIndexSlot(cacheFile') /\ cacheFile'.shader_index = cacheFile.shader_index]_vars

\* After a search without rebuild, the blob holds both slots and neither is
\* what the sources would give now.
C8_Witness ==
    /\ IsSearch(op) /\ ~op.force_rebuild /\ ~ret.raised
    /\ HasTagSlot(cacheFile) /\ HasIndexSlot(cacheFile)
    /\ get(cacheFile.tag_cache, <<>>) # ReadTagFiles(tagFiles)
    /\ ~ScanRaises(corpus)
    /\ get(cacheFile.shader_index, <<>>) \notin Indexes(corpus)

----------------------------------------------------------------------------
(* SpecSearch: searches with every combination of text filters, with and   *)
(* without a forced rebuild, on instances that live across calls, while    *)
(* the association files change between calls.                             *)

s_JON        == <<"J","O","N">>
s_Glowing    == <<"G","l","o","w","i","n","g">>
s_lamp       == <<"l","a","m","p">>
t_Procedural == <<"P","r","o","c","e","d","u","r","a","l">>

\* Named without 'glow', described with it, by an author matching 'jon',
\* and tagged in its own JSON.
doc_Lamp ==
    OkDoc(Info(None, Some(s_lamp), Some(s_jon), Some(s_Glowing), Some(<<t_Procedural>>), None),
          None)

CorpusChoicesSearch ==
    {Corpus(doc_Glow, doc_Flat), Corpus(doc_Glow, doc_Lamp),
     Corpus(doc_Lamp, doc_Flat), Corpus(doc_Flat, BadDoc("absent"))}

Queries ==
    [tags : {None, Some(s_proc)},
     name : {None, Some(s_empty), Some(s_glow)},
     author : {None, Some(s_JON)},
     description : {None, Some(s_glow)},
     requires : {{}}]

InitSearch ==
    /\ renderpass = <<>>
    /\ required_resources = None
    /\ \E c \in CorpusChoicesSearch, tf \in {NoTagFiles, tf_OneTag, tf_TwoDirs} :
            InitSystem(c, tf, NoBlob)

NextSearch ==
    \/ \E q \in Queries, force_rebuild \in BOOLEAN : Search(q, force_rebuild, FALSE)
    \/ NewInstance
    \/ \E tf \in {NoTagFiles, tf_OneTag, tf_TwoDirs} : EnvTagFiles(tf)

SpecSearch == InitSearch /\ [][NextSearch]_vars

ResultIds == {r.id : r \in ret.value}

\* sub occurs in s, ignoring case.
OccursIgnoringCase(sub, s) ==
    \E k \in 0 .. Len(s) :
        /\ k + Len(sub) <= Len(s)
        /\ \A j \in 1 .. Len(sub) : LowerChar(s[k + j]) = LowerChar(sub[j])

\* The record passes every name, author and description filter that is given.
PassesTextFilters(data, q) ==
    /\ \A x \in q.name : OccursIgnoringCase(x, data.name)
    /\ \A x \in q.author : OccursIgnoringCase(x, data.username)
    /\ \A x \in q.description : OccursIgnoringCase(x, data.description)

\* C9: a search returns only records of the index that pass every name,
\* author and description filter given, and, with no tags filter, all of them.
C9_TextFiltersConjunctive ==
    IsSearch(op) /\ ~ret.raised =>
        LET passing == {i \in DOMAIN self.shader_index :
                           PassesTextFilters(self.shader_index[i], op.q)}
        IN /\ ResultIds \subseteq passing
           /\ ~Supplied(op.q.tags) => ResultIds = passing
           /\ \A r \in ret.value : r = ResultRecord(r.id, self.shader_index[r.id])

\* name='glow' over 'Glow Sphere' and 'Flat Color' returned exactly the first.
C9_Witness ==
    /\ IsSearch(op) /\ ~ret.raised
    /\ op.q = [NoQuery EXCEPT !.name = Some(s_glow)]
    /\ {self.shader_index[i].name : i \in DOMAIN self.shader_index} = {s_GlowSphere, s_FlatColor}
    /\ {r.name : r \in ret.value} = {s_GlowSphere}

\* Only the tags filter is given.
TagsOnly(q) ==
    Supplied(q.tags) /\ q.name = None /\ q.author = None /\ q.description = None /\ q.requires = {}

PrefixIgnoringCase(p, s) ==
    /\ Len(p) <= Len(s)
    /\ \A j \in 1 .. Len(p) : LowerChar(s[j]) = LowerChar(p[j])

\* C10 as stated: after every tags-only search, forced rebuild or not, a
\* shader of the index that the association files list under a tag starting
\* with the filter is in the result.
C10_TagMappingAlwaysUsed ==
    IsSearch(op) /\ ~ret.raised /\ TagsOnly(op.q) =>
        \A T \in DOMAIN ReadTagFiles(tagFiles) :
            \A S \in ReadTagFiles(tagFiles)[T] \cap DOMAIN self.shader_index :
                PrefixIgnoringCase(get(op.q.tags, s_empty), T) => S \in ResultIds

\* C10 amended: after a search without forced rebuild the mapping of the
\* instance is the blob's tag_cache slot or, without one, what the
\* association files give, and a tags-only search returns every shader of
\* the index that this mapping lists under a tag starting with the filter.
C10_TagMappingUsedUnlessForced ==
    IsSearch(op) /\ ~ret.raised /\ ~op.force_rebuild =>
        /\ self.tag_cache = IF HasTagSlot(cacheFile) THEN get(cacheFile.tag_cache, <<>>)
                            ELSE ReadTagFiles(tagFiles)
        /\ TagsOnly(op.q) =>
              \A T \in DOMAIN self.tag_cache :
                  \A S \in self.tag_cache[T] \cap DOMAIN self.shader_index :
                      PrefixIgnoringCase(get(op.q.tags, s_empty), T) => S \in ResultIds

\* tags='proc' returned 'Xs', listed by the file 'procedural', whose own
\* tags list is empty.
C10_Witness ==
    /\ IsSearch(op) /\ ~ret.raised /\ ~op.force_rebuild /\ TagsOnly(op.q)
    /\ id_Xs \in ReadTagFiles(tagFiles)[t_procedural]
    /\ \E r \in ret.value : r.id = id_Xs /\ r.tags = <<>>

----------------------------------------------------------------------------
(* SpecRequires: the requires-file loader called for two capabilities on   *)
(* instances that live across calls, while the requires files are created, *)
(* changed and deleted between calls.                                      *)

line_header  == <<"-","-","-"," ","s","o","u","n","d","\n">>
line_path    == <<"f","o","l","d","e","r","/">> \o id_Xs \o nl
line_blank   == <<" ">> \o nl
line_plain   == id_Yb \o nl
line_deep    == <<" ","a","/","b","/">> \o id_Zz \o <<" ">> \o nl

req_Headed == TextFile(<<line_header, line_path, line_blank>>)
req_Plain  == TextFile(<<line_plain, line_deep>>)

\* requires_sound.txt in both directories, requires_common.txt in the first.
RequiresFiles(sound1, sound2, common1) ==
    [i \in Range(ShaderDirs) |->
        IF i = ShaderDirs[1] THEN (s_sound :> sound1) @@ (s_common :> common1)
        ELSE (s_sound :> sound2)]

RequiresFileChoices ==
    {RequiresFiles(a, b, c) :
        a \in {NoFile, LockedFile, req_Headed, req_Plain},
        b \in {NoFile, LockedFile, req_Headed, req_Plain},
        c \in {NoFile, req_Plain}}

ReqTypes == {s_sound, s_common}

InitRequires ==
    /\ renderpass = <<>>
    /\ required_resources = None
    /\ InitSystem(EmptyCorpus, NoTagFiles, NoBlob)

NextRequires ==
    \/ \E req_type \in ReqTypes : LoadRequires(req_type)
    \/ \E rf \in RequiresFileChoices : EnvRequiresFiles(rf)
    \/ NewInstance

SpecRequires == InitRequires /\ [][NextRequires]_vars

IsLoadRequires(call) == call.name = "load_requires_file"

\* The capability a load_requires_file call was made for.
ReqTypeOf(call) == CHOOSE req_type \in call.q.requires : TRUE

\* x is the id the line gives: the line is, between white space, a
\* non-empty text that does not start with '---', and x is what follows
\* its last '/' (the whole text when it has none).
LineGives(line, x) ==
    \E i \in 1..Len(line), j \in 1..Len(line) :
        /\ i <= j
        /\ \A k \in 1..Len(line) : (k < i \/ k > j) => line[k] \in Whitespace
        /\ line[i] \notin Whitespace /\ line[j] \notin Whitespace
        /\ ~(j - i >= 2 /\ line[i] = "-" /\ line[i+1] = "-" /\ line[i+2] = "-")
        /\ \E k \in i..(j+1) :
              /\ x = SubSeq(line, k, j)
              /\ \A m \in k..j : line[m] # "/"
              /\ k = i \/ line[k-1] = "/"

\* The ids the claim gives for a capability: over the directories that
\* have the file, what its lines give.
IdsGiven(rf, req_type) ==
    {x \in {id_Xs, id_Yb, id_Zz, s_empty} :
        \E i \in 1..Len(ShaderDirs) :
            LET file == RequiresFile(rf, ShaderDirs[i], req_type)
            IN \E n \in 1..Len(file.lines) : LineGives(file.lines[n], x)}

\* C18: a load that goes to the files returns the ids that the lines of
\* the requires files of all the directories give, blank and '---' lines
\* giving none and a path giving its last segment; a directory without
\* the file adds nothing, and the load does not raise.
C18_LoadIsUnionOfIds ==
    IsLoadRequires(op) /\ ret.read =>
        /\ ~ret.raised
        /\ ret.value = IdsGiven(requiresFiles, ReqTypeOf(op))
        /\ ret.value \subseteq {id_Xs, id_Yb, id_Zz}

\* load('sound') read a file with a '---' line, a path line and a blank
\* line in one directory and a plain and a padded path line in the other,
\* and load('common') found the file in one directory only.
C18_Witness ==
    /\ IsLoadRequires(op) /\ ret.read
    /\ requiresFiles = RequiresFiles(req_Headed, req_Plain, req_Plain)
    /\ DOMAIN self.requires_cache = {s_sound, s_common}
    /\ self.requires_cache[s_sound] = {id_Xs, id_Yb, id_Zz}
    /\ self.requires_cache[s_common] = {id_Yb, id_Zz}

\* C15: a load of a capability the instance has loaded before returns the
\* memo entry without looking at the files; a load makes the set it
\* returns the memo entry of its capability and leaves every other entry,
\* present or not, as it is; and changes of the files leave the memo as it
\* is.
C15_RequiresMemoized ==
    /\ [][IsLoadRequires(op') /\ ReqTypeOf(op') \in DOMAIN self.requires_cache =>
             /\ ret'.value = self.requires_cache[ReqTypeOf(op')]
             /\ ~ret'.read
             /\ self' = self]_vars
    /\ [][IsLoadRequires(op') =>
             /\ ReqTypeOf(op') \in DOMAIN self'.requires_cache
             /\ self'.requires_cache[ReqTypeOf(op')] = ret'.value
             /\ \A other \in Capabilities \ {ReqTypeOf(op')} :
                   /\ other \in DOMAIN self'.requires_cache <=> other \in DOMAIN self.requires_cache
                   /\ other \in DOMAIN self.requires_cache =>
                         self'.requires_cache[other] = self.requires_cache[other]]_vars
    /\ [][op'.name = "env_requires_files" => self' = self]_vars

\* A second load('sound') returned what the first had, without reading,
\* after the files had changed to give something else.
C15_Witness ==
    /\ IsLoadRequires(op) /\ ReqTypeOf(op) = s_sound /\ ~ret.read
    /\ ret.value = {id_Xs}
    /\ ReadRequiresFiles(requiresFiles, s_sound) = {id_Yb, id_Zz}
    /\ s_common \notin DOMAIN self.requires_cache

----------------------------------------------------------------------------
(* SpecFilter: searches with capability filters, alone and with an author  *)
(* filter, and runs of the command line, on an instance that lives across  *)
(* calls, while the mutator runs and documents and requires files change   *)
(* between calls.                                                          *)

rp_Imagebuf ==
    <<[type |-> None, inputs |-> Some(<<[type |-> Some(s_imagebuf), filepath |-> None]>>)]>>

\* By Jonas, no requires list yet, an image pass with a sound input.
doc_JonSound == OkDoc(Info(None, Some(s_GlowSphere), Some(s_Jonas), None, None, None),
                      Some(rp_ImageSound))

\* By ana, requires soundbuf already.
doc_AnaSound == OkDoc(Info(None, Some(s_FlatColor), Some(s_ana), None, None,
                           Some(<<s_soundbuf>>)), None)

\* By ana, no requires list yet, an input of type 'imagebuf'.
doc_Imagebuf == OkDoc(Info(None, Some(s_FlatColor), Some(s_ana), None, None, None),
                      Some(rp_Imagebuf))

CorpusChoicesFilter ==
    {Corpus(doc_JonSound, doc_AnaSound),
     Corpus(doc_Lamp, doc_Imagebuf),
     Corpus(BadDoc("absent"), doc_AnaSound),
     Corpus(doc_JonSound, BadDoc("malformed"))}

\* requires_sound.txt of the first directory lists 'Xs'.
rf_SoundXs == RequiresFiles(req_Headed, NoFile, NoFile)

QueriesFilter ==
    {NoQuery,
     [NoQuery EXCEPT !.requires = {s_sound}],
     [NoQuery EXCEPT !.requires = {s_imagebuf}],
     [NoQuery EXCEPT !.requires = {s_sound, s_image}],
     [NoQuery EXCEPT !.requires = {s_sound}, !.author = Some(s_jon)]}

ArgsFilter ==
    {[add_tags |-> FALSE, reindex |-> reindex, q |-> q] :
        reindex \in BOOLEAN, q \in {NoQuery, [NoQuery EXCEPT !.requires = {s_sound}]}}

InitFilter ==
    /\ renderpass = <<>>
    /\ required_resources = None
    /\ \E c \in CorpusChoicesFilter : InitSystem(c, NoTagFiles, NoBlob)

NextFilter ==
    \/ \E q \in QueriesFilter, force_rebuild \in BOOLEAN : Search(q, force_rebuild, FALSE)
    \/ \E args \in ArgsFilter : Main(args)
    \/ Mutate(FALSE)
    \/ \E c \in CorpusChoicesFilter : EnvCorpus(c)
    \/ \E rf \in {NoRequiresFiles, rf_SoundXs} : EnvRequiresFiles(rf)
    \/ NewInstance

SpecFilter == InitFilter /\ [][NextFilter]_vars

IsMain(call) == call.name = "main"

\* The requires list of the document behind a record, as it is on disk now.
OnDiskRequires(i) ==
    LET d == corpus[self.shader_index[i].filepath]
    IN IF d.kind = "ok" THEN Range(get(d.info.requires, <<>>)) ELSE {}

\* The requires-file set of a capability, as the instance loaded it.
RequiresSet(cap) ==
    IF cap \in DOMAIN self.requires_cache THEN self.requires_cache[cap] ELSE {}

\* C11: a search with a capability filter returns exactly the records of
\* the index that pass every text filter given and that, for every
\* capability asked for, are in its requires-file set or have its string in
\* the requires list on disk.
C11_CapabilityFiltersConjunctive ==
    IsSearch(op) /\ ~ret.raised /\ op.q.requires # {} =>
        ResultIds = {i \in DOMAIN self.shader_index :
                        /\ PassesTextFilters(self.shader_index[i], op.q)
                        /\ \A cap \in op.q.requires :
                              i \in RequiresSet(cap) \/ RequiresString(cap) \in OnDiskRequires(i)}

\* author='jon' with requires_sound over two records that both require
\* soundbuf, one by Jonas and one by ana, returned exactly the first.
C11_Witness ==
    /\ IsSearch(op) /\ ~ret.raised
    /\ op.q = [NoQuery EXCEPT !.requires = {s_sound}, !.author = Some(s_jon)]
    /\ DOMAIN self.shader_index = {id_Xs, id_Yb}
    /\ s_soundbuf \in OnDiskRequires(id_Xs) /\ s_soundbuf \in OnDiskRequires(id_Yb)
    /\ self.shader_index[id_Yb].username = s_ana
    /\ ResultIds = {id_Xs}

\* Only the capability filter cap is given.
OnlyCapability(q, cap) ==
    q = [NoQuery EXCEPT !.requires = {cap}]

\* The mutator has inferred the requires list of the document behind the
\* record, and one of the types it inferred it from is cap.
InferredFromType(i, cap) ==
    LET d == corpus[self.shader_index[i].filepath]
    IN /\ d.kind = "ok" /\ d.renderpass # None
       /\ cap \in {lower(T) : T \in TypesOf(get(d.renderpass, <<>>))}
       /\ InferRequires(get(d.renderpass, <<>>)) \subseteq Range(get(d.info.requires, <<>>))

\* The filters named after a resource string and not after a type.
ResourceNamed == {s_imagebuf, s_library, s_soundbuf}

\* C12 as stated: for every capability filter, a search with only that
\* filter returns every record whose requires list the mutator inferred
\* from an input of that type.
C12_EveryFilterFollowsTable ==
    \A cap \in Capabilities :
        IsSearch(op) /\ ~ret.raised /\ OnlyCapability(op.q, cap) =>
            \A i \in DOMAIN self.shader_index : InferredFromType(i, cap) => i \in ResultIds

\* C12 amended: for every capability filter but imagebuf, library and
\* soundbuf the string looked up is the table's string for the type of
\* that name, and a search with only that filter returns every record whose
\* requires list the mutator inferred from an input of that type; for
\* imagebuf, library and soundbuf the string looked up is the name itself.
C12_TypeFiltersFollowTable ==
    /\ \A cap \in Capabilities \ ResourceNamed : RequiresString(cap) = Table(cap, cap)
    /\ \A cap \in ResourceNamed : RequiresString(cap) = cap
    /\ \A cap \in Capabilities \ ResourceNamed :
          IsSearch(op) /\ ~ret.raised /\ OnlyCapability(op.q, cap) =>
              \A i \in DOMAIN self.shader_index : InferredFromType(i, cap) => i \in ResultIds

\* requires_sound alone, with no requires file, returned 'Xs', whose
\* requires list the mutator inferred from a sound input.
C12_Witness ==
    /\ IsSearch(op) /\ ~ret.raised /\ OnlyCapability(op.q, s_sound)
    /\ requiresFiles = NoRequiresFiles /\ RequiresSet(s_sound) = {}
    /\ id_Xs \in DOMAIN self.shader_index /\ InferredFromType(id_Xs, s_sound)
    /\ id_Xs \in ResultIds

NoFilters(q) == q = NoQuery

\* C13 as stated: a search with no filter returns nothing.
C13_NoFilterSearchIsEmpty ==
    IsSearch(op) /\ ~ret.raised /\ NoFilters(op.q) => ret.value = {}

\* C13 amended: a run of the command line with no filter makes no search:
\* it prints the usage text and no record, does not raise and does not
\* scan; search itself, called with no filter, returns every record of the
\* index.
C13_NoFilterRunPrintsUsage ==
    /\ IsMain(op) /\ ~op.add_tags /\ NoFilters(op.q) =>
          ~ret.raised /\ ret.value = {} /\ ret.help /\ ~scanned
    /\ IsSearch(op) /\ ~ret.raised /\ NoFilters(op.q) =>
          ResultIds = DOMAIN self.shader_index

\* A run with no filter printed the usage text while the blob held an
\* index of two records.
C13_Witness ==
    /\ IsMain(op) /\ NoFilters(op.q) /\ ret.help /\ ret.value = {}
    /\ HasIndexSlot(cacheFile)
    /\ DOMAIN get(cacheFile.shader_index, <<>>) = {id_Xs, id_Yb}

\* C14: a search with one capability filter that takes the index from the
\* blob returns a record that is not in the requires-file set exactly when
\* the requires list on disk at the time of the search has the string.
C14_RequiresReadAtQueryTime ==
    \A cap \in Capabilities :
        IsSearch(op) /\ ~ret.raised /\ ~scanned /\ OnlyCapability(op.q, cap) =>
            \A i \in DOMAIN self.shader_index \ RequiresSet(cap) :
                i \in ResultIds <=>
                    RequiresString(cap) \in
                        Range(get(corpus[self.shader_index[i].filepath].info.requires, <<>>))

\* A search that did not scan returned 'Xs' for requires_sound by the
\* requires list the mutator has written, and not 'Yb', which on disk is
\* no longer a document that requires soundbuf.
C14_Witness ==
    /\ IsSearch(op) /\ ~ret.raised /\ ~scanned /\ OnlyCapability(op.q, s_sound)
    /\ DOMAIN self.shader_index = {id_Xs, id_Yb}
    /\ RequiresSet(s_sound) = {}
    /\ corpus[JsonPath(id_Xs)].info.requires \in {Some(<<s_imagebuf, s_soundbuf>>),
                                                   Some(<<s_soundbuf, s_imagebuf>>)}
    /\ corpus[JsonPath(id_Yb)].kind = "malformed"
    /\ ResultIds = {id_Xs}

\* The document behind the record is, now, no readable JSON document.
Unresolved(i) ==
    corpus[self.shader_index[i].filepath].kind \in {"absent", "unreadable", "malformed"}

\* C17 as stated: a search returns no record whose file is no readable
\* JSON document at the time of the search.
C17_UnresolvedExcluded ==
    IsSearch(op) /\ ~ret.raised => \A i \in ResultIds : ~Unresolved(i)

\* C17 amended: a search that takes the index from the blob does not
\* raise, and treats a record whose file is no readable JSON document as
\* one with an empty requires list: it returns it exactly when it passes
\* the text filters and is in the requires-file set of every capability
\* asked for.
C17_UnresolvedHasNoRequires ==
    IsSearch(op) /\ ~scanned =>
        /\ ~ret.raised
        /\ \A i \in DOMAIN self.shader_index :
              Unresolved(i) =>
                  (i \in ResultIds <=>
                      /\ PassesTextFilters(self.shader_index[i], op.q)
                      /\ \A cap \in op.q.requires : i \in RequiresSet(cap))

\* requires_sound returned 'Xs', which requires_sound.txt lists, after its
\* document was deleted.
C17_Witness ==
    /\ IsSearch(op) /\ ~scanned /\ ~ret.raised /\ OnlyCapability(op.q, s_sound)
    /\ corpus[JsonPath(id_Xs)].kind = "absent"
    /\ id_Xs \in RequiresSet(s_sound)
    /\ id_Xs \in ResultIds

----------------------------------------------------------------------------
(* SpecFrame: every operation of the program, each in a run of its own,    *)
(* over the documents, association files and blobs of SpecCache.           *)

NextFrame ==
    \/ NextCache
    \/ \E req_type \in ReqTypes : LoadRequires(req_type)

SpecFrame == InitCache /\ [][NextFrame]_vars

\* C16: search, the index builder, the tag-mapping loader and the
\* requires-file loader leave the corpus as it is, and the records a search
\* returns have the tags of the index it loaded: those of the blob's slot
\* when it did not scan, those of the documents when it did.
C16_OnlyMutatorWritesCorpus ==
    /\ [][IsSearch(op') \/ IsLoadAll(op') \/ IsBuildTags(op') \/ IsLoadRequires(op') =>
             corpus' = corpus]_vars
    /\ [][IsSearch(op') /\ ~ret'.raised =>
             \A r \in ret'.value :
                 r.tags = IF scanned' THEN get(corpus[r.filepath].info.tags, <<>>)
                          ELSE get(cacheFile.shader_index, <<>>)[r.id].tags]_vars

\* tags='proc' returned a record through the tag mapping alone: its tags
\* in the result and in the document are still none.
C16_Witness ==
    /\ IsSearch(op) /\ ~ret.raised /\ op.q.tags = Some(s_proc)
    /\ \E r \in ret.value :
          /\ r.tags = <<>>
          /\ corpus[r.filepath].kind = "ok"
          /\ get(corpus[r.filepath].info.tags, <<>>) = <<>>

----------------------------------------------------------------------------
(* SpecRace: two invocations, each an index build or a tag-mapping build,  *)
(* share the blob.  An invocation is the steps of its code that touch the  *)
(* file system: reading the blob, reading its sources, reading the blob    *)
(* again (the tag-mapping build), writing the blob.  In mode "interleaved" *)
(* the steps of the two interleave freely; in mode "serialized" the caller *)
(* starts an invocation only when the other has not started or has ended.  *)
(* prov says, for each slot of the blob, which invocation's value it holds *)
(* (0: none of the two); seq numbers the reads of the sources.             *)

Procs == {1, 2}

Invocation(kind, force_rebuild) ==
    [kind |-> kind, force_rebuild |-> force_rebuild, pc |-> "start",
     cache_data |-> [kind |-> "dict", tag_cache |-> None, shader_index |-> None],
     seen |-> [tag_cache |-> 0, shader_index |-> 0],
     value |-> <<>>, seq |-> 0, reported |-> FALSE]

Invocations ==
    {Invocation("index", TRUE), Invocation("index", FALSE), Invocation("tags", FALSE)}

\* The other invocation is not under way.
MayStep(p) ==
    race.mode = "serialized" =>
        \A o \in Procs \ {p} : race.procs[o].pc \in {"start", "done"}

RaceStep(p, proc, prov, cf) ==
    /\ race' = [race EXCEPT !.procs[p] = proc, !.prov = prov,
                            !.clock = IF proc.seq # race.procs[p].seq THEN @ + 1 ELSE @]
    /\ cacheFile' = cf
    /\ UNCHANGED <<renderpass, required_resources, corpus, tagFiles, requiresFiles, self,
                   op, ret, scanned>>

\* load_all_json_metadata, lines 221-229: the blob is read unless the
\* rebuild is forced; a hit returns its index.
IndexRead(p) ==
    LET me == race.procs[p] IN
    /\ race.mode # "none" /\ me.kind = "index" /\ me.pc = "start" /\ MayStep(p)
    /\ IF IndexCacheHit(cacheFile, me.force_rebuild)
       THEN RaceStep(p, [me EXCEPT !.pc = "done",
                                   !.value = get(cacheFile.shader_index, <<>>)],
                     race.prov, cacheFile)
       ELSE RaceStep(p, [me EXCEPT !.pc = "scan",
                                   !.cache_data = CacheData(cacheFile, me.force_rebuild),
                                   !.seen = IF me.force_rebuild
                                            THEN [tag_cache |-> 0, shader_index |-> 0]
                                            ELSE race.prov],
                     race.prov, cacheFile)

\* Lines 232-260: the scan.
IndexScan(p) ==
    LET me == race.procs[p] IN
    /\ race.mode # "none" /\ me.kind = "index" /\ me.pc = "scan" /\ MayStep(p)
    /\ ~ScanRaises(corpus)
    /\ \E shader_index \in Indexes(corpus) :
          RaceStep(p, [me EXCEPT !.pc = "write", !.value = shader_index,
                                 !.seq = race.clock + 1],
                   race.prov, cacheFile)

\* Lines 265-270: cache_data, as it was read, is dumped with the new index,
\* and "Saved shader index to cache" is printed.
IndexWrite(p) ==
    LET me == race.procs[p] IN
    /\ race.mode # "none" /\ me.kind = "index" /\ me.pc = "write" /\ MayStep(p)
    /\ RaceStep(p, [me EXCEPT !.pc = "done", !.reported = cacheFile.writable],
                IF cacheFile.writable
                THEN [tag_cache |-> me.seen.tag_cache, shader_index |-> p]
                ELSE race.prov,
                IndexSaved(cacheFile, me.cache_data, me.value))

\* build_tag_mappings, lines 30-38: a hit returns the blob's mapping.
TagsRead(p) ==
    LET me == race.procs[p] IN
    /\ race.mode # "none" /\ me.kind = "tags" /\ me.pc = "start" /\ MayStep(p)
    /\ IF TagCacheHit(cacheFile)
       THEN RaceStep(p, [me EXCEPT !.pc = "done", !.value = get(cacheFile.tag_cache, <<>>)],
                     race.prov, cacheFile)
       ELSE RaceStep(p, [me EXCEPT !.pc = "files"], race.prov, cacheFile)

\* Lines 40-57: the association files are read.
TagsFiles(p) ==
    LET me == race.procs[p] IN
    /\ race.mode # "none" /\ me.kind = "tags" /\ me.pc = "files" /\ MayStep(p)
    /\ RaceStep(p, [me EXCEPT !.pc = "reread", !.value = ReadTagFiles(tagFiles),
                              !.seq = race.clock + 1],
                race.prov, cacheFile)

\* Lines 62-66: the blob is read again; when that fails the mapping is not
\* saved.
TagsReread(p) ==
    LET me == race.procs[p] IN
    /\ race.mode # "none" /\ me.kind = "tags" /\ me.pc = "reread" /\ MayStep(p)
    /\ IF TagCacheSaved(cacheFile)
       THEN RaceStep(p, [me EXCEPT !.pc = "write",
                                   !.cache_data = [kind |-> "dict",
                                                   tag_cache |-> cacheFile.tag_cache,
                                                   shader_index |-> cacheFile.shader_index],
                                   !.seen = race.prov],
                     race.prov, cacheFile)
       ELSE RaceStep(p, [me EXCEPT !.pc = "done"], race.prov, cacheFile)

\* Lines 68-70: cache_data, as it was read, is dumped with the new mapping.
TagsWrite(p) ==
    LET me == race.procs[p] IN
    /\ race.mode # "none" /\ me.kind = "tags" /\ me.pc = "write" /\ MayStep(p)
    /\ RaceStep(p, [me EXCEPT !.pc = "done", !.reported = cacheFile.writable],
                IF cacheFile.writable
                THEN [tag_cache |-> p, shader_index |-> me.seen.shader_index]
                ELSE race.prov,
                IF cacheFile.writable
                THEN TagSlots([cacheFile EXCEPT !.shader_index = me.cache_data.shader_index],
                              me.value)
                ELSE cacheFile)

InitRace ==
    /\ renderpass = <<>>
    /\ required_resources = None
    /\ \E c \in {Corpus(doc_Glow, doc_Flat), Corpus(doc_Glow, BadDoc("absent"))} :
          InitSystem(c, tf_OneTag, NoBlob)

\* The caller starts two invocations.
StartRace(mode, first, second) ==
    /\ race.mode = "none"
    /\ race' = [mode |-> mode, clock |-> 0, procs |-> <<first, second>>,
                prov |-> [tag_cache |-> 0, shader_index |-> 0]]
    /\ UNCHANGED <<renderpass, required_resources, corpus, tagFiles, requiresFiles,
                   cacheFile, self, op, ret, scanned>>

NextRace ==
    \/ \E mode \in {"interleaved", "serialized"}, first \in Invocations, second \in Invocations :
          StartRace(mode, first, second)
    \/ \E p \in Procs : IndexRead(p)
    \/ \E p \in Procs : IndexScan(p)
    \/ \E p \in Procs : IndexWrite(p)
    \/ \E p \in Procs : TagsRead(p)
    \/ \E p \in Procs : TagsFiles(p)
    \/ \E p \in Procs : TagsReread(p)
    \/ \E p \in Procs : TagsWrite(p)
    \/ \E c \in {Corpus(doc_Glow, doc_Flat), Corpus(doc_Glow, BadDoc("absent"))} : EnvCorpus(c)

SpecRace == InitRace /\ [][NextRace]_vars

\* The slot an invocation writes.
SlotOf(proc) == IF proc.kind = "index" THEN "shader_index" ELSE "tag_cache"

\* Both invocations have ended, and the blob lacks, or holds an older value
\* of, a slot that one of them wrote and reported as saved.
LostUpdate ==
    /\ race.mode # "none"
    /\ \A p \in Procs : race.procs[p].pc = "done"
    /\ \E p \in Procs :
          LET me == race.procs[p]
              holder == race.prov[SlotOf(me)]
          IN /\ me.reported
             /\ \/ cacheFile.kind # "dict"
                \/ cacheFile[SlotOf(me)] = None
                \/ holder = 0
                \/ holder # p /\ race.procs[holder].seq < me.seq

\* C19, second half, as stated: when the caller serializes the two
\* invocations, no lost update is reachable.  (The first half, that one is
\* reachable when they interleave, is InterleavedNoLostUpdate being
\* violated.)
C19_SerializedNoLostUpdate == race.mode = "serialized" => ~LostUpdate

InterleavedNoLostUpdate == race.mode = "interleaved" => ~LostUpdate

====
